---- MODULE Spec2Model ----
(***************************************************************************)
(* LaserSight: the scan-rate estimator of types.ts                         *)
(* (getRecommendedScanRate, exceedsMaxScannerAngle) and its three          *)
(* conversions (calculateWidth, calculateDistance, calculateAngle).        *)
(*                                                                         *)
(* Numbers.  Angles and KPPS values are integers in the model; every       *)
(* quotient the code forms (ratio, cappedRatio, weight) is kept as an      *)
(* exact fraction and Math.round is floor(x + 1/2).  An optional number    *)
(* (maxAngle?, maxKpps?) is <<>> when undefined and <<v>> when set.        *)
(* A note is a template with the numbers substituted into it:              *)
(* [fmt |-> template, args |-> numbers], "%" marking each ${...} and        *)
(* "deg" standing for the degree sign.                                     *)
(*                                                                         *)
(* The conversions work on JavaScript numbers: a finite value, +Infinity   *)
(* or NaN.  A finite value is kept in thousandths (SCALE), Math.tan is the *)
(* table of tan(a / 2) at the whole degrees with linear interpolation      *)
(* between them, and Math.atan is the inverse of that table.               *)
(***************************************************************************)
EXTENDS Integers, Sequences, FiniteSets, TLC

VARIABLES scanner, angle, rateResult, exceedsResult,
          argA, argB, widthResult, distanceResult, angleResult,
          angleState, distanceState, widthState, calculationMode,
          effectPending, effectRuns, events, beforeSwitch,
          darkMode, renderedDarkMode, darkClass, storedTheme,
          themeEffects, themeAtMount, clicks, mounts

estimatorVars == <<scanner, angle, rateResult, exceedsResult>>

conversionVars == <<argA, argB, widthResult, distanceResult, angleResult>>

\* LaserSightCalculator: the three quantities, the mode, whether the effect
\* has still to run for the last change, the effect runs since the last
\* user event, the user events so far, and (for the claims) the three
\* quantities as they were before a mode switch.
calculatorVars == <<angleState, distanceState, widthState, calculationMode,
                    effectPending, effectRuns, events, beforeSwitch>>

\* ThemeToggle: the state and the value the last render saw, the document's
\* 'dark' class, localStorage 'theme', the effects still to run after the
\* last render, and (for the claims) the theme stored when the component
\* mounted, the clicks on the button since, and the mounts so far.
themeVars == <<darkMode, renderedDarkMode, darkClass, storedTheme,
               themeEffects, themeAtMount, clicks, mounts>>

vars == <<estimatorVars, conversionVars, calculatorVars, themeVars>>

MAX_ANGLE == 90

(* ------------------------------ bounds --------------------------------- *)
MaxSpecs == 2      \* longest specs table
MaxTarget == 13    \* target angles -1 .. MaxTarget (plus the ones around 90)
MaxLength == 5     \* conversion arguments -2 .. MaxLength (plus larger ones)
MaxWideSpecs == 3  \* longest table of the specification SpecWideTables
MaxClicks == 4     \* clicks on the theme button between two mounts
MaxMounts == 3     \* page loads
MaxEvents == 3     \* user events on the calculator
MaxEffectRuns == 4 \* effect runs followed after one user event

(* --------------------------- optional values --------------------------- *)
Undefined == <<>>

Some(v) == <<v>>

IsDefined(o) == o # <<>>

\* JavaScript truthiness of an optional number: undefined and 0 are falsy.
Truthy(o) == o # <<>> /\ o[1] # 0

Min2(x, y) == IF x <= y THEN x ELSE y

Max2(x, y) == IF x >= y THEN x ELSE y

\* Math.round(n / d) for d > 0: floor(n/d + 1/2).
Round(n, d) == (2 * n + d) \div (2 * d)

(* -------------------------------- notes -------------------------------- *)
UnknownNote == [fmt |-> "Unknown", args |-> <<>>]

ExceedsNote(m) == [fmt |-> "Exceeds max angle (%deg)", args |-> <<m>>]

MaxKppsNote(m) == [fmt |-> "Max KPPS (%K)", args |-> <<m>>]

EstimatedBelowNote(s) == [fmt |-> "Estimated (< %deg)", args |-> <<s>>]

EstimatedAboveNote(l) == [fmt |-> "Estimated (> %deg)", args |-> <<l>>]

InterpolatedNote(lo, hi) == [fmt |-> "Interpolated (%deg - %deg)", args |-> <<lo, hi>>]

SpecNote(text) == [fmt |-> text, args |-> <<>>]

(* ------------------------------- inputs -------------------------------- *)
\* Spec points: the ones of the test suite and the edge cases of the data
\* model (angle 0, angle MAX_ANGLE, a rate of 1, an equal angle with another
\* rate, neighbouring rates one apart).
SpecPoints ==
    { [angle |-> 4,  kpps |-> 60, note |-> SpecNote("ILDA at 4 deg")],
      [angle |-> 8,  kpps |-> 40, note |-> SpecNote("ILDA standard")],
      [angle |-> 8,  kpps |-> 38, note |-> SpecNote("Alternative spec")],
      [angle |-> 8,  kpps |-> 1,  note |-> SpecNote("Slow")],
      [angle |-> 12, kpps |-> 2,  note |-> SpecNote("Wide")],
      [angle |-> 12, kpps |-> 60, note |-> SpecNote("Fast wide")],
      [angle |-> 0,  kpps |-> 60, note |-> SpecNote("Static beam")],
      [angle |-> 12, kpps |-> 39, note |-> SpecNote("Near standard")],
      [angle |-> 90, kpps |-> 5,  note |-> SpecNote("Full sweep")] }

SpecTables == UNION { [1..n -> SpecPoints] : n \in 0..MaxSpecs }

MaxAngles == {Undefined, Some(0), Some(10)}

MaxKppsValues == {Undefined, Some(0), Some(30), Some(60)}

\* A scanner record; specs is <<>> when the property is missing and
\* <<table>> when it is there (the table may be empty).
Scanners ==
    [specs : {Undefined} \cup {Some(t) : t \in SpecTables},
     maxAngle : MaxAngles,
     maxKpps : MaxKppsValues]

Absent == Undefined

ScannerInputs == {Absent} \cup {Some(s) : s \in Scanners}

TargetAngles == (-1 .. MaxTarget) \cup {16, 24, MAX_ANGLE, MAX_ANGLE + 1}

\* Points for the longer tables: three angles with falling rates, a second
\* reading at 8 degrees, and a point whose rate is 0 (kpps: number).
WidePoints ==
    { [angle |-> 4, kpps |-> 60, note |-> SpecNote("ILDA at 4 deg")],
      [angle |-> 8, kpps |-> 40, note |-> SpecNote("ILDA standard")],
      [angle |-> 8, kpps |-> 38, note |-> SpecNote("Alternative spec")],
      [angle |-> 12, kpps |-> 2, note |-> SpecNote("Wide")],
      [angle |-> 16, kpps |-> 0, note |-> SpecNote("Stalled")] }

WideTables == UNION { [1..n -> WidePoints] : n \in 1..MaxWideSpecs }

\* Scanners with a table of up to MaxWideSpecs points and no maxAngle.
WideScanners ==
    [specs : {Some(t) : t \in WideTables},
     maxAngle : {Undefined},
     maxKpps : {Undefined, Some(30)}]

(* ------------------------- JavaScript numbers -------------------------- *)
SCALE == 1000

\* The finite number v / SCALE.
Fin(v) == [k |-> "fin", v |-> v]

\* Infinity
PosInf == [k |-> "inf", v |-> 0]

\* NaN
NotANumber == [k |-> "nan", v |-> 0]

\* The whole number n.
Whole(n) == Fin(n * SCALE)

\* Math.max(x, y) for y finite: NaN if x is NaN.
JsMax(x, y) ==
    IF x.k = "nan" THEN NotANumber
    ELSE IF x.k = "inf" THEN PosInf
    ELSE IF x.v >= y.v THEN x ELSE y

\* Math.min(x, y) for y finite: NaN if x is NaN.
JsMin(x, y) ==
    IF x.k = "nan" THEN NotANumber
    ELSE IF x.k = "inf" THEN y
    ELSE IF x.v <= y.v THEN x ELSE y

\* x * y, for factors none of which is -Infinity: Infinity * 0 is NaN.
JsMul(x, y) ==
    IF x.k = "nan" \/ y.k = "nan" THEN NotANumber
    ELSE IF x.k = "inf" \/ y.k = "inf"
         THEN IF (x.k = "fin" /\ x.v = 0) \/ (y.k = "fin" /\ y.v = 0)
              THEN NotANumber ELSE PosInf
         ELSE Fin(Round(x.v * y.v, SCALE))

\* x / y for x >= 0 and y >= 0: 0 / 0 is NaN and x / 0 is Infinity for x > 0.
JsDiv(x, y) ==
    IF x.k = "nan" \/ y.k = "nan" THEN NotANumber
    ELSE IF x.k = "inf"
         THEN IF y.k = "inf" THEN NotANumber ELSE PosInf
         ELSE IF y.k = "inf" THEN Fin(0)
              ELSE IF y.v = 0
                   THEN IF x.v = 0 THEN NotANumber ELSE PosInf
                   ELSE Fin(Round(x.v * SCALE, y.v))

\* tan(a / 2 degrees) * SCALE for a = 0, 1, ..., 90 (TanTable[a + 1]).
TanTable ==
    << 0, 9, 17, 26, 35, 44, 52, 61, 70, 79,
           87, 96, 105, 114, 123, 132, 141, 149, 158, 167,
           176, 185, 194, 203, 213, 222, 231, 240, 249, 259,
           268, 277, 287, 296, 306, 315, 325, 335, 344, 354,
           364, 374, 384, 394, 404, 414, 424, 435, 445, 456,
           466, 477, 488, 499, 510, 521, 532, 543, 554, 566,
           577, 589, 601, 613, 625, 637, 649, 662, 675, 687,
           700, 713, 727, 740, 754, 767, 781, 795, 810, 824,
           839, 854, 869, 885, 900, 916, 933, 949, 966, 983,
           1000 >>

\* Math.tan((safeAngle / 2) * (Math.PI / 180)) for 0 <= safeAngle <= 90.
TanHalf(a) ==
    IF a.k = "nan" THEN NotANumber
    ELSE LET whole == a.v \div SCALE
             part == a.v % SCALE
         IN  IF whole >= MAX_ANGLE THEN Fin(TanTable[MAX_ANGLE + 1])
             ELSE Fin(TanTable[whole + 1]
                        + Round((TanTable[whole + 2] - TanTable[whole + 1])
                                    * part, SCALE))

\* 2 * Math.atan(q) * (180 / Math.PI) for a finite q in [0, 1]: the angle
\* whose TanHalf is q.
AtanUnit(v) ==
    IF v >= TanTable[MAX_ANGLE + 1] THEN MAX_ANGLE * SCALE
    ELSE LET whole == CHOOSE i \in 0..(MAX_ANGLE - 1) :
                          TanTable[i + 1] <= v /\ v < TanTable[i + 2]
         IN  whole * SCALE
               + Round((v - TanTable[whole + 1]) * SCALE,
                       TanTable[whole + 2] - TanTable[whole + 1])

\* 2 * Math.atan(q) * (180 / Math.PI) for q >= 0: 180 for Infinity, and
\* atan(q) = 90 degrees - atan(1 / q) above 1.
AtanTwice(q) ==
    IF q.k = "nan" THEN NotANumber
    ELSE IF q.k = "inf" THEN Whole(2 * MAX_ANGLE)
    ELSE IF q.v <= SCALE THEN Fin(AtanUnit(q.v))
    ELSE Fin(2 * MAX_ANGLE * SCALE - AtanUnit(Round(SCALE * SCALE, q.v)))

(* --------------------------- the conversions ---------------------------- *)
\* Mutant: the distance is raised to 1, not to 0.
calculateWidth_FloorOne(a, distance) ==
    LET safeA == JsMax(JsMin(a, Whole(MAX_ANGLE)), Whole(0))
        safeDistance == JsMax(distance, Whole(1))
    IN  JsMul(JsMul(safeDistance, TanHalf(safeA)), Whole(2))

\* Mutant: the distance is used as it is, without Math.max(0, distance).
calculateWidth_RawDistance(a, distance) ==
    LET safeA == JsMax(JsMin(a, Whole(MAX_ANGLE)), Whole(0))
    IN  JsMul(JsMul(distance, TanHalf(safeA)), Whole(2))

\* calculateWidth(angle, distance)
calculateWidth(a, distance) ==
    LET safeA == JsMax(JsMin(a, Whole(MAX_ANGLE)), Whole(0))
        safeDistance == JsMax(distance, Whole(0))
    IN  JsMul(JsMul(safeDistance, TanHalf(safeA)), Whole(2))

\* calculateDistance(angle, width)
calculateDistance(a, width) ==
    LET safeA == JsMax(JsMin(a, Whole(MAX_ANGLE)), Whole(0))
        safeWidth == JsMax(width, Whole(0))
    IN  JsDiv(safeWidth, JsMul(TanHalf(safeA), Whole(2)))

\* Mutant: the result is not limited to MAX_ANGLE.
calculateAngle_NoLimit(distance, width) ==
    LET safeDistance == JsMax(distance, Whole(0))
        safeWidth == JsMax(width, Whole(0))
    IN  AtanTwice(JsDiv(safeWidth, JsMul(safeDistance, Whole(2))))

\* calculateAngle(distance, width)
calculateAngle(distance, width) ==
    LET safeDistance == JsMax(distance, Whole(0))
        safeWidth == JsMax(width, Whole(0))
        calculatedAngle ==
            AtanTwice(JsDiv(safeWidth, JsMul(safeDistance, Whole(2))))
    IN  JsMin(calculatedAngle, Whole(MAX_ANGLE))

\* The arguments the conversions are called with: whole numbers, negative
\* ones and angles above MAX_ANGLE among them, and the two numbers that are
\* not finite.
ConversionInputs ==
    { Whole(n) : n \in (-2 .. MaxLength)
                        \cup {-30, -10, 10, 15, 30, 45, 60, 80, 90, 100} }
        \cup {NotANumber, PosInf}

(* ------------------------------ components ------------------------------ *)
\* null
Null == [k |-> "null", v |-> 0]

\* The components before they are mounted.
CalculatorIdle ==
    /\ angleState = Null
    /\ distanceState = Null
    /\ widthState = Null
    /\ calculationMode = "width"
    /\ effectPending = FALSE
    /\ effectRuns = 0
    /\ events = 0
    /\ beforeSwitch = <<>>

ThemeIdle ==
    /\ darkMode = TRUE
    /\ renderedDarkMode = TRUE
    /\ darkClass = FALSE
    /\ storedTheme = "none"
    /\ themeEffects = <<>>
    /\ themeAtMount = "none"
    /\ clicks = 0
    /\ mounts = 0

(* ---------------------- exceedsMaxScannerAngle ------------------------- *)
\* Mutant: the limit is tested for truthiness, so a maxAngle of 0 counts as
\* missing.
exceedsMaxScannerAngle_Truthy(sc, a) ==
    IF sc = Absent \/ ~Truthy(sc[1].maxAngle)
    THEN FALSE
    ELSE a > sc[1].maxAngle[1]

\* if (!scanner || scanner.maxAngle === undefined) return false;
\* return angle > scanner.maxAngle;
exceedsMaxScannerAngle(sc, a) ==
    IF sc = Absent \/ sc[1].maxAngle = Undefined
    THEN FALSE
    ELSE a > sc[1].maxAngle[1]

(* ---------------------- getRecommendedScanRate ------------------------- *)
\* !scanner || !scanner.specs || scanner.specs.length === 0
hasNoSpecs(sc) ==
    \/ sc = Absent
    \/ sc[1].specs = Undefined
    \/ Len(sc[1].specs[1]) = 0

\* scanner.maxAngle && angle > scanner.maxAngle
exceedsCheck(sc, a) ==
    Truthy(sc[1].maxAngle) /\ a > sc[1].maxAngle[1]

\* Mutant: the upper clamp is missing, Math.max(0, angle).
safeAngle_NoUpper(a) == Max2(0, a)

\* Math.max(0, Math.min(angle, MAX_ANGLE))
safeAngle(a) == Max2(0, Min2(a, MAX_ANGLE))

\* Mutant: an unstable sort, which puts a point before the points of the
\* same angle that precede it in the table.
RECURSIVE InsertByAngle_Unstable(_, _)
InsertByAngle_Unstable(sorted, p) ==
    IF sorted = <<>> THEN <<p>>
    ELSE IF Head(sorted).angle < p.angle
         THEN <<Head(sorted)>> \o InsertByAngle_Unstable(Tail(sorted), p)
         ELSE <<p>> \o sorted

\* Array.prototype.sort is stable: a point goes behind the points of the
\* same angle that precede it in the table.
RECURSIVE InsertByAngle(_, _)
InsertByAngle(sorted, p) ==
    IF sorted = <<>> THEN <<p>>
    ELSE IF Head(sorted).angle <= p.angle
         THEN <<Head(sorted)>> \o InsertByAngle(Tail(sorted), p)
         ELSE <<p>> \o sorted

\* Mutant: the sort is missing and the table is used as it is.
sortedSpecs_Unsorted(specs) == specs

\* [...scanner.specs].sort((a, b) => a.angle - b.angle)
RECURSIVE sortedSpecs(_)
sortedSpecs(specs) ==
    IF specs = <<>> THEN <<>>
    ELSE InsertByAngle(sortedSpecs(SubSeq(specs, 1, Len(specs) - 1)),
                       specs[Len(specs)])

\* sortedSpecs.find(spec => spec.angle === safeAngle): the index of the
\* first match, 0 when there is none.
exactMatch(sorted, a) ==
    LET hits == {i \in 1..Len(sorted) : sorted[i].angle = a}
    IN  IF hits = {} THEN 0
        ELSE CHOOSE i \in hits : \A j \in hits : i <= j

\* scanner.maxKpps ? Math.min(extrapolatedKpps, scanner.maxKpps)
\*                 : extrapolatedKpps
limitedKpps(extrapolatedKpps, maxKpps) ==
    IF Truthy(maxKpps) THEN Min2(extrapolatedKpps, maxKpps[1])
    ELSE extrapolatedKpps

\* Mutant: Math.floor in place of Math.round.
extrapolateBelow_Floor(first, a) ==
    LET cappedRatio == IF a = 0 \/ 2 * first.angle >= 3 * a
                       THEN <<3, 2>>
                       ELSE <<first.angle, a>>
    IN  (first.kpps * cappedRatio[1]) \div cappedRatio[2]

\* Math.round(sortedSpecs[0].kpps * Math.min(smallest / safeAngle, 1.5));
\* smallest / 0 is Infinity, which the cap turns into 1.5.
extrapolateBelow(first, a) ==
    LET cappedRatio == IF a = 0 \/ 2 * first.angle >= 3 * a
                       THEN <<3, 2>>
                       ELSE <<first.angle, a>>
    IN  Round(first.kpps * cappedRatio[1], cappedRatio[2])

\* The branch safeAngle < sortedSpecs[0].angle.
belowRange(sc, sorted, a) ==
    LET extrapolatedKpps == extrapolateBelow(sorted[1], a)
        limited == limitedKpps(extrapolatedKpps, sc.maxKpps)
    IN  [kpps |-> limited,
         note |-> IF IsDefined(sc.maxKpps) /\ limited = sc.maxKpps[1]
                  THEN MaxKppsNote(sc.maxKpps[1])
                  ELSE EstimatedBelowNote(sorted[1].angle)]

\* Mutant: the floor of 1 is missing.
extrapolateAbove_NoFloor(largest, a) ==
    IF largest.angle = 0
    THEN 0
    ELSE Round(largest.kpps * largest.angle * largest.angle, a * a)

\* Mutant: a linear falloff, largest.kpps / ratio.
extrapolateAbove_Linear(largest, a) ==
    IF largest.angle = 0
    THEN Max2(1, 0)
    ELSE Max2(1, Round(largest.kpps * largest.angle, a))

\* Math.max(1, Math.round(largest.kpps / (ratio * ratio))) with
\* ratio = safeAngle / largest.angle; a largest angle of 0 makes the ratio
\* Infinity and the quotient 0.
extrapolateAbove(largest, a) ==
    IF largest.angle = 0
    THEN Max2(1, 0)
    ELSE Max2(1, Round(largest.kpps * largest.angle * largest.angle, a * a))

\* Mutant: the extrapolation above the table is limited by maxKpps like the
\* one below it.
aboveRange_Capped(sc, sorted, a) ==
    LET largest == sorted[Len(sorted)]
    IN  [kpps |-> limitedKpps(extrapolateAbove(largest, a), sc.maxKpps),
         note |-> EstimatedAboveNote(largest.angle)]

\* The branch safeAngle > sortedSpecs[length - 1].angle.
aboveRange(sc, sorted, a) ==
    LET largest == sorted[Len(sorted)]
    IN  [kpps |-> extrapolateAbove(largest, a),
         note |-> EstimatedAboveNote(largest.angle)]

\* for (i = 0; i < length - 1; i++) if (sortedSpecs[i].angle <= safeAngle
\*     && sortedSpecs[i + 1].angle >= safeAngle) { ...; break; }
\* The index of the first such pair, 0 when the loop finds none.
bracketIndex(sorted, a) ==
    LET hits == {i \in 1..(Len(sorted) - 1) :
                    sorted[i].angle <= a /\ sorted[i + 1].angle >= a}
    IN  IF hits = {} THEN 0
        ELSE CHOOSE i \in hits : \A j \in hits : i <= j

\* Mutant: the loop is missing and lowerSpec stays sortedSpecs[0].
lowerSpec_Default(sorted, a) == sorted[1]

\* lowerSpec: sortedSpecs[0] unless the loop found a pair.
lowerSpec(sorted, a) ==
    IF bracketIndex(sorted, a) = 0 THEN sorted[1]
    ELSE sorted[bracketIndex(sorted, a)]

\* upperSpec: the last point unless the loop found a pair.
upperSpec(sorted, a) ==
    IF bracketIndex(sorted, a) = 0 THEN sorted[Len(sorted)]
    ELSE sorted[bracketIndex(sorted, a) + 1]

\* Mutant: the weight grows with the target angle, (safeAngle - lower)
\* in place of (upper - safeAngle).
weight_Rising(lo, hi, a) ==
    LET n == (a - lo) * (hi * hi + lo * lo)
        d == (hi - lo) * hi * hi
    IN  IF d < 0 THEN <<-n, -d>> ELSE <<n, d>>

\* weight = (1 - ratio) * (1 + angleRatio^2) with
\* ratio = (safeAngle - lower) / (upper - lower), angleRatio = lower / upper,
\* as the fraction <<numerator, denominator>> with a positive denominator:
\*   (upper - a)(upper^2 + lower^2) / ((upper - lower) upper^2).
\* A denominator of 0 stands for the non-finite weight of upper = lower or
\* upper = 0.
weight(lo, hi, a) ==
    LET n == (hi - a) * (hi * hi + lo * lo)
        d == (hi - lo) * hi * hi
    IN  IF d < 0 THEN <<-n, -d>> ELSE <<n, d>>

NaN == "NaN"

\* Mutant: the check against the maximum of the two rates is missing.
finalKpps_NoSanity(lower, upper, a) ==
    LET w == weight(lower.angle, upper.angle, a)
        smallerAngleSpec == IF lower.angle < upper.angle THEN lower ELSE upper
        largerAngleSpec == IF lower.angle < upper.angle THEN upper ELSE lower
    IN  Max2(1, Round(smallerAngleSpec.kpps * w[1]
                        + largerAngleSpec.kpps * (w[2] - w[1]), w[2]))

\* Math.round(smaller.kpps * weight + larger.kpps * (1 - weight)), then the
\* "final safety checks" up to Math.max(1, finalKpps); for a finite weight.
finalKpps(lower, upper, a) ==
    LET w == weight(lower.angle, upper.angle, a)
        smallerAngleSpec == IF lower.angle < upper.angle THEN lower ELSE upper
        largerAngleSpec == IF lower.angle < upper.angle THEN upper ELSE lower
        interpolatedKpps ==
            Round(smallerAngleSpec.kpps * w[1]
                    + largerAngleSpec.kpps * (w[2] - w[1]), w[2])
        top == Max2(smallerAngleSpec.kpps, largerAngleSpec.kpps)
    IN  IF interpolatedKpps > top \/ interpolatedKpps < 0
        THEN Max2(1, top)
        ELSE Max2(1, interpolatedKpps)

\* The interpolation branch with its maxKpps check.  A non-finite weight
\* makes every later value NaN, which no comparison changes.
interpolate(sc, sorted, a) ==
    LET lower == lowerSpec(sorted, a)
        upper == upperSpec(sorted, a)
        final == finalKpps(lower, upper, a)
    IN  IF weight(lower.angle, upper.angle, a)[2] = 0
        THEN [kpps |-> NaN,
              note |-> InterpolatedNote(lower.angle, upper.angle)]
        ELSE IF Truthy(sc.maxKpps) /\ final > sc.maxKpps[1]
             THEN [kpps |-> sc.maxKpps[1],
                   note |-> MaxKppsNote(sc.maxKpps[1])]
             ELSE [kpps |-> final,
                   note |-> InterpolatedNote(lower.angle, upper.angle)]

\* Mutant: an exact match is limited by maxKpps.
estimate_CappedExact(sc, sorted, a) ==
    IF exactMatch(sorted, a) # 0
    THEN [kpps |-> limitedKpps(sorted[exactMatch(sorted, a)].kpps, sc.maxKpps),
          note |-> sorted[exactMatch(sorted, a)].note]
    ELSE IF a < sorted[1].angle
         THEN belowRange(sc, sorted, a)
         ELSE IF a > sorted[Len(sorted)].angle
              THEN aboveRange(sc, sorted, a)
              ELSE interpolate(sc, sorted, a)

\* The branches after the sort, in the order of the code.
estimate(sc, sorted, a) ==
    IF exactMatch(sorted, a) # 0
    THEN [kpps |-> sorted[exactMatch(sorted, a)].kpps,
          note |-> sorted[exactMatch(sorted, a)].note]
    ELSE IF a < sorted[1].angle
         THEN belowRange(sc, sorted, a)
         ELSE IF a > sorted[Len(sorted)].angle
              THEN aboveRange(sc, sorted, a)
              ELSE interpolate(sc, sorted, a)

\* Mutant: the max-angle check comes before the check for a specs table.
getRecommendedScanRate_CheckFirst(sc, a) ==
    IF sc # Absent /\ exceedsCheck(sc, a)
    THEN [kpps |-> 0, note |-> ExceedsNote(sc[1].maxAngle[1])]
    ELSE IF hasNoSpecs(sc)
         THEN [kpps |-> 0, note |-> UnknownNote]
         ELSE estimate(sc[1], sortedSpecs(sc[1].specs[1]), safeAngle(a))

\* The whole function: the two sentinel results, then clamp, sort and
\* estimate.
getRecommendedScanRate(sc, a) ==
    IF hasNoSpecs(sc)
    THEN [kpps |-> 0, note |-> UnknownNote]
    ELSE IF exceedsCheck(sc, a)
         THEN [kpps |-> 0, note |-> ExceedsNote(sc[1].maxAngle[1])]
         ELSE estimate(sc[1], sortedSpecs(sc[1].specs[1]), safeAngle(a))

\* Mutant: scanner.specs.sort(...) sorts the caller's table in place.
specsAfterSort_InPlace(specs) == sortedSpecs(specs)

\* The caller's table after [...scanner.specs].sort(...): the spread makes a
\* copy and the sort works on the copy.
specsAfterSort(specs) == specs

\* The scanner argument after the call: the two early returns come before
\* the sort, and nothing else writes to the scanner.
scannerAfterCall(sc, a) ==
    IF hasNoSpecs(sc) \/ exceedsCheck(sc, a)
    THEN sc
    ELSE Some([sc[1] EXCEPT !.specs = Some(specsAfterSort(sc[1].specs[1]))])

(* --------------------------- the state machine -------------------------- *)
\* A caller holds a scanner (or none) and a target angle and calls the two
\* functions.
Init ==
    /\ scanner \in ScannerInputs
    /\ angle \in TargetAngles
    /\ rateResult = <<>>
    /\ exceedsResult = <<>>
    /\ argA = Fin(0)
    /\ argB = Fin(0)
    /\ widthResult = <<>>
    /\ distanceResult = <<>>
    /\ angleResult = <<>>
    /\ CalculatorIdle
    /\ ThemeIdle

CallGetRecommendedScanRate ==
    /\ rateResult = <<>>
    /\ rateResult' = <<getRecommendedScanRate(scanner, angle)>>
    /\ scanner' = scannerAfterCall(scanner, angle)
    /\ UNCHANGED <<angle, exceedsResult, conversionVars, calculatorVars,
                   themeVars>>

CallExceedsMaxScannerAngle ==
    /\ exceedsResult = <<>>
    /\ exceedsResult' = <<exceedsMaxScannerAngle(scanner, angle)>>
    /\ UNCHANGED <<scanner, angle, rateResult, conversionVars,
                   calculatorVars, themeVars>>

Next ==
    \/ CallGetRecommendedScanRate
    \/ CallExceedsMaxScannerAngle

Spec == Init /\ [][Next]_vars

\* The same calls on scanners with longer tables.
InitWideTables ==
    /\ scanner \in {Some(s) : s \in WideScanners}
    /\ angle \in TargetAngles
    /\ rateResult = <<>>
    /\ exceedsResult = <<>>
    /\ argA = Fin(0)
    /\ argB = Fin(0)
    /\ widthResult = <<>>
    /\ distanceResult = <<>>
    /\ angleResult = <<>>
    /\ CalculatorIdle
    /\ ThemeIdle

SpecWideTables == InitWideTables /\ [][Next]_vars

\* A caller holds two numbers and calls the three conversions with them:
\* calculateWidth(argA, argB), calculateDistance(argA, argB) and
\* calculateAngle(argA, argB).
InitConversions ==
    /\ argA \in ConversionInputs
    /\ argB \in ConversionInputs
    /\ widthResult = <<>>
    /\ distanceResult = <<>>
    /\ angleResult = <<>>
    /\ scanner = Absent
    /\ angle = 0
    /\ rateResult = <<>>
    /\ exceedsResult = <<>>
    /\ CalculatorIdle
    /\ ThemeIdle

CallCalculateWidth ==
    /\ widthResult = <<>>
    /\ widthResult' = <<calculateWidth(argA, argB)>>
    /\ UNCHANGED <<argA, argB, distanceResult, angleResult, estimatorVars,
                   calculatorVars, themeVars>>

CallCalculateDistance ==
    /\ distanceResult = <<>>
    /\ distanceResult' = <<calculateDistance(argA, argB)>>
    /\ UNCHANGED <<argA, argB, widthResult, angleResult, estimatorVars,
                   calculatorVars, themeVars>>

CallCalculateAngle ==
    /\ angleResult = <<>>
    /\ angleResult' = <<calculateAngle(argA, argB)>>
    /\ UNCHANGED <<argA, argB, widthResult, distanceResult, estimatorVars,
                   calculatorVars, themeVars>>

NextConversions ==
    \/ CallCalculateWidth
    \/ CallCalculateDistance
    \/ CallCalculateAngle

SpecConversions == InitConversions /\ [][NextConversions]_vars

(* ------------------------- LaserSightCalculator ------------------------- *)
CalculationModes == {"width", "distance", "angle"}

\* x + n
JsAdd(x, n) == IF x.k = "fin" THEN Fin(x.v + n * SCALE) ELSE x

\* prev || 0: null, 0 and NaN give 0.
OrZero(prev) ==
    IF prev.k \in {"null", "nan"} \/ (prev.k = "fin" /\ prev.v = 0)
    THEN Whole(0) ELSE prev

\* Mutant: x === y, for which NaN differs from NaN.
SameValue_StrictEquals(x, y) == x = y /\ x.k # "nan"

\* Object.is(x, y), by which React decides whether a state or a dependency
\* has changed: NaN is the same value as NaN.
SameValue(x, y) == x = y

\* Mutant: in Angle mode the two arguments are passed in the wrong order.
calculateValue_SwappedArguments(mode, a, d, w) ==
    IF mode = "width" /\ a # Null /\ d # Null THEN calculateWidth(a, d)
    ELSE IF mode = "distance" /\ a # Null /\ w # Null
         THEN calculateDistance(a, w)
    ELSE IF mode = "angle" /\ d # Null /\ w # Null
         THEN calculateAngle(w, d)
    ELSE Whole(0)

\* calculateValue()
calculateValue(mode, a, d, w) ==
    IF mode = "width" /\ a # Null /\ d # Null THEN calculateWidth(a, d)
    ELSE IF mode = "distance" /\ a # Null /\ w # Null
         THEN calculateDistance(a, w)
    ELSE IF mode = "angle" /\ d # Null /\ w # Null
         THEN calculateAngle(d, w)
    ELSE Whole(0)

\* handleInputChange(setter, isAngle) for the number parseFloat returned.
sanitizedInput(value, isAngle) ==
    IF value.k = "nan" THEN Null
    ELSE IF isAngle THEN JsMin(JsMax(value, Whole(0)), Whole(MAX_ANGLE))
    ELSE JsMax(value, Whole(0))

\* What parseFloat(e.target.value) gives for the text of a number field:
\* NaN for an empty field, else the number typed.
TypedAngles == {NotANumber, Whole(-5), Whole(0), Whole(30), Whole(100)}

TypedLengths == {NotANumber, Whole(-5), Whole(0), Whole(10)}

\* The useState initial values; the effect runs after the first render.
InitCalculator ==
    /\ angleState = Whole(8)
    /\ distanceState = Whole(10)
    /\ widthState = Null
    /\ calculationMode = "width"
    /\ effectPending = TRUE
    /\ effectRuns = 0
    /\ events = 0
    /\ beforeSwitch = <<>>
    /\ scanner = Absent
    /\ angle = 0
    /\ rateResult = <<>>
    /\ exceedsResult = <<>>
    /\ argA = Fin(0)
    /\ argB = Fin(0)
    /\ widthResult = <<>>
    /\ distanceResult = <<>>
    /\ angleResult = <<>>
    /\ ThemeIdle

\* The effect of [angle, distance, width, calculationMode]: it stores the
\* value of the mode's quantity, and runs again if that changed the state.
RunEffect ==
    /\ effectPending
    /\ effectRuns < MaxEffectRuns
    /\ LET value == calculateValue(calculationMode, angleState,
                                   distanceState, widthState)
           setsWidth == calculationMode = "width" /\ angleState # Null
                            /\ distanceState # Null
           setsDistance == calculationMode = "distance" /\ angleState # Null
                            /\ widthState # Null
           setsAngle == calculationMode = "angle" /\ distanceState # Null
                            /\ widthState # Null
       IN  /\ widthState' = IF setsWidth THEN value ELSE widthState
           /\ distanceState' = IF setsDistance THEN value ELSE distanceState
           /\ angleState' = IF setsAngle THEN value ELSE angleState
           /\ effectPending' =
                  \/ setsWidth /\ ~SameValue(widthState, value)
                  \/ setsDistance /\ ~SameValue(distanceState, value)
                  \/ setsAngle /\ ~SameValue(angleState, value)
    /\ effectRuns' = effectRuns + 1
    /\ UNCHANGED <<calculationMode, events, beforeSwitch, estimatorVars,
                   conversionVars, themeVars>>

\* A user event that leaves the three quantities as a, d and w and the mode
\* as mode: the effect is to run if any of the four changed.
UserEvent(a, d, w, mode, snapshot) ==
    /\ ~effectPending
    /\ events < MaxEvents
    /\ events' = events + 1
    /\ angleState' = a
    /\ distanceState' = d
    /\ widthState' = w
    /\ calculationMode' = mode
    /\ effectPending' =
          ~(/\ SameValue(angleState, a)
            /\ SameValue(distanceState, d)
            /\ SameValue(widthState, w)
            /\ calculationMode = mode)
    /\ effectRuns' = 0
    /\ beforeSwitch' = snapshot
    /\ UNCHANGED <<estimatorVars, conversionVars, themeVars>>

\* onChange of the three number fields; the field of the mode's quantity
\* is not rendered.
TypeAngle ==
    /\ calculationMode # "angle"
    /\ \E value \in TypedAngles :
          UserEvent(sanitizedInput(value, TRUE), distanceState, widthState,
                    calculationMode, <<>>)

TypeDistance ==
    /\ calculationMode # "distance"
    /\ \E value \in TypedLengths :
          UserEvent(angleState, sanitizedInput(value, FALSE), widthState,
                    calculationMode, <<>>)

TypeWidth ==
    /\ calculationMode # "width"
    /\ \E value \in TypedLengths :
          UserEvent(angleState, distanceState, sanitizedInput(value, FALSE),
                    calculationMode, <<>>)

\* The MinusButton of a field: disabled={!x || x <= 0}.
MinusEnabled(x) ==
    ~(x.k \in {"null", "nan"} \/ (x.k = "fin" /\ x.v <= 0))

\* setX(prev => Math.max((prev || 0) - 1, 0))
minusOne(prev) == JsMax(JsAdd(OrZero(prev), -1), Whole(0))

\* setX(prev => (prev || 0) + 1)
plusOne(prev) == JsAdd(OrZero(prev), 1)

MinusAngle ==
    /\ calculationMode # "angle"
    /\ MinusEnabled(angleState)
    /\ UserEvent(minusOne(angleState), distanceState, widthState,
                 calculationMode, <<>>)

\* PlusButton of the angle: disabled={angle !== null && angle >= MAX_ANGLE},
\* setAngle(prev => Math.min((prev || 0) + 1, MAX_ANGLE)).
PlusAngle ==
    /\ calculationMode # "angle"
    /\ ~(angleState.k = "fin" /\ angleState.v >= MAX_ANGLE * SCALE)
    /\ UserEvent(JsMin(plusOne(angleState), Whole(MAX_ANGLE)),
                 distanceState, widthState, calculationMode, <<>>)

MinusDistance ==
    /\ calculationMode # "distance"
    /\ MinusEnabled(distanceState)
    /\ UserEvent(angleState, minusOne(distanceState), widthState,
                 calculationMode, <<>>)

PlusDistance ==
    /\ calculationMode # "distance"
    /\ UserEvent(angleState, plusOne(distanceState), widthState,
                 calculationMode, <<>>)

MinusWidth ==
    /\ calculationMode # "width"
    /\ MinusEnabled(widthState)
    /\ UserEvent(angleState, distanceState, minusOne(widthState),
                 calculationMode, <<>>)

PlusWidth ==
    /\ calculationMode # "width"
    /\ UserEvent(angleState, distanceState, plusOne(widthState),
                 calculationMode, <<>>)

\* handleModeChange(mode): the quantity of the new mode is set to null.
\* If the three quantities were all there and the width was the width of
\* the angle and the distance, they are remembered.
HandleModeChange ==
    /\ calculationMode \in CalculationModes
    /\ \E mode \in CalculationModes :
          UserEvent(IF mode = "angle" THEN Null ELSE angleState,
                    IF mode = "distance" THEN Null ELSE distanceState,
                    IF mode = "width" THEN Null ELSE widthState,
                    mode,
                    IF /\ angleState # Null
                       /\ distanceState # Null
                       /\ widthState # Null
                       /\ widthState
                            = calculateWidth(angleState, distanceState)
                    THEN <<angleState, distanceState, widthState>>
                    ELSE <<>>)

NextCalculator ==
    \/ RunEffect
    \/ TypeAngle
    \/ TypeDistance
    \/ TypeWidth
    \/ MinusAngle
    \/ PlusAngle
    \/ MinusDistance
    \/ PlusDistance
    \/ MinusWidth
    \/ PlusWidth
    \/ HandleModeChange

SpecCalculator == InitCalculator /\ [][NextCalculator]_vars

(* ----------------------------- ThemeToggle ------------------------------ *)
\* What localStorage.getItem('theme') can return when the page loads: null
\* ("none"), the two values the component writes, and any other string.
StoredThemes == {"none", "light", "dark", "other"}

\* Mutant: the saved preference is not looked at.
darkModeAfterLoad_Ignored(savedTheme, current) == current

\* The first effect: if (savedTheme === 'light') setDarkMode(false).
darkModeAfterLoad(savedTheme, current) ==
    IF savedTheme = "light" THEN FALSE ELSE current

\* The second effect, for the darkMode the render saw: the class is added
\* or removed and the theme is stored.
classAfterApply(seen) == seen

storedAfterApply(seen) == IF seen THEN "dark" ELSE "light"

\* The component mounts on a page: useState(true), and both effects are to
\* run after the first render, in the order they are declared.
InitTheme ==
    /\ darkMode = TRUE
    /\ renderedDarkMode = TRUE
    /\ darkClass \in BOOLEAN
    /\ storedTheme \in StoredThemes
    /\ themeEffects = <<"load", "apply">>
    /\ themeAtMount = storedTheme
    /\ clicks = 0
    /\ mounts = 1
    /\ scanner = Absent
    /\ angle = 0
    /\ rateResult = <<>>
    /\ exceedsResult = <<>>
    /\ argA = Fin(0)
    /\ argB = Fin(0)
    /\ widthResult = <<>>
    /\ distanceResult = <<>>
    /\ angleResult = <<>>
    /\ CalculatorIdle

\* useEffect(() => { ... }, []): queues setDarkMode(false) for 'light'.
RunLoadEffect ==
    /\ themeEffects # <<>>
    /\ Head(themeEffects) = "load"
    /\ darkMode' = darkModeAfterLoad(storedTheme, darkMode)
    /\ themeEffects' = Tail(themeEffects)
    /\ UNCHANGED <<renderedDarkMode, darkClass, storedTheme, themeAtMount,
                   clicks, mounts, estimatorVars, conversionVars, calculatorVars>>

\* useEffect(() => { ... }, [darkMode]), with the darkMode of the render
\* that scheduled it.
RunApplyEffect ==
    /\ themeEffects # <<>>
    /\ Head(themeEffects) = "apply"
    /\ darkClass' = classAfterApply(renderedDarkMode)
    /\ storedTheme' = storedAfterApply(renderedDarkMode)
    /\ themeEffects' = Tail(themeEffects)
    /\ UNCHANGED <<darkMode, renderedDarkMode, themeAtMount, clicks,
                   mounts,
                   estimatorVars, conversionVars, calculatorVars>>

\* The render after a state change: it sees the new darkMode and schedules
\* the second effect, whose dependency changed.
Rerender ==
    /\ themeEffects = <<>>
    /\ renderedDarkMode # darkMode
    /\ renderedDarkMode' = darkMode
    /\ themeEffects' = <<"apply">>
    /\ UNCHANGED <<darkMode, darkClass, storedTheme, themeAtMount, clicks,
                   mounts,
                   estimatorVars, conversionVars, calculatorVars>>

\* No effect is left to run and the last render saw the current state.
ThemeSettled == themeEffects = <<>> /\ renderedDarkMode = darkMode

\* onClick={() => setDarkMode(!darkMode)}
ClickToggle ==
    /\ ThemeSettled
    /\ clicks < MaxClicks
    /\ darkMode' = ~darkMode
    /\ clicks' = clicks + 1
    /\ UNCHANGED <<renderedDarkMode, darkClass, storedTheme, themeEffects,
                   themeAtMount, mounts, estimatorVars, conversionVars,
                   calculatorVars>>

\* The page is loaded again: the state starts over, the document of the new
\* page has the class or not, and localStorage is kept.
Remount ==
    /\ ThemeSettled
    /\ mounts < MaxMounts
    /\ mounts' = mounts + 1
    /\ darkMode' = TRUE
    /\ renderedDarkMode' = TRUE
    /\ darkClass' \in BOOLEAN
    /\ themeEffects' = <<"load", "apply">>
    /\ themeAtMount' = storedTheme
    /\ clicks' = 0
    /\ UNCHANGED <<storedTheme, estimatorVars, conversionVars,
                   calculatorVars>>

NextTheme ==
    \/ RunLoadEffect
    \/ RunApplyEffect
    \/ Rerender
    \/ ClickToggle
    \/ Remount

SpecTheme == InitTheme /\ [][NextTheme]_vars

(* ------------------------ vocabulary of the claims ---------------------- *)
\* The call of getRecommendedScanRate has returned.
RateReturned == rateResult # <<>>

\* The scanner is there and its specs table holds at least one point.
HasSpecs ==
    /\ scanner # Absent
    /\ scanner[1].specs # Undefined
    /\ scanner[1].specs[1] # <<>>

\* The max-angle check of getRecommendedScanRate did not fire.
CheckPassed == HasSpecs /\ ~exceedsCheck(scanner, angle)

\* The target angle clamped to [0, MAX_ANGLE].
Clamped ==
    IF angle < 0 THEN 0 ELSE IF angle > MAX_ANGLE THEN MAX_ANGLE ELSE angle

SpecAngles == {scanner[1].specs[1][i].angle : i \in DOMAIN scanner[1].specs[1]}

SmallestAngle == CHOOSE x \in SpecAngles : \A y \in SpecAngles : x <= y

LargestAngle == CHOOSE x \in SpecAngles : \A y \in SpecAngles : x >= y

\* The rate of the smallest-angle point: of the first one in the table when
\* several points have that angle.
SmallestKpps ==
    LET t == scanner[1].specs[1]
        i == CHOOSE j \in DOMAIN t :
                /\ t[j].angle = SmallestAngle
                /\ \A m \in DOMAIN t : t[m].angle = SmallestAngle => j <= m
    IN  t[i].kpps

\* The rate of the largest-angle point: of the last one in the table when
\* several points have that angle.
LargestKpps ==
    LET t == scanner[1].specs[1]
        i == CHOOSE j \in DOMAIN t :
                /\ t[j].angle = LargestAngle
                /\ \A m \in DOMAIN t : t[m].angle = LargestAngle => j >= m
    IN  t[i].kpps

\* The words a note contains, for the templates of the estimator.
NoteContains(note, word) ==
    <<note.fmt, word>> \in
        { <<"Estimated (< %deg)", "Estimated">>, <<"Estimated (< %deg)", "<">>,
          <<"Estimated (> %deg)", "Estimated">>, <<"Estimated (> %deg)", ">">>,
          <<"Interpolated (%deg - %deg)", "Interpolated">>,
          <<"Max KPPS (%K)", "Max KPPS">>,
          <<"Exceeds max angle (%deg)", "Exceeds max angle">>,
          <<"Unknown", "Unknown">> }

(* -------------------------------- claims -------------------------------- *)
\* C1: without a scanner, without a specs table or with an empty one the
\* result is exactly {kpps: 0, note: "Unknown"}, for every target angle and
\* whatever maxAngle and maxKpps are.
C1_UnknownWithoutSpecs ==
    (RateReturned /\ ~HasSpecs)
        => rateResult[1] = [kpps |-> 0, note |-> UnknownNote]

\* An empty table with a target angle above a set maxAngle: still "Unknown".
C1_Witness ==
    /\ RateReturned
    /\ scanner # Absent
    /\ scanner[1].specs = Some(<<>>)
    /\ scanner[1].maxAngle = Some(10)
    /\ scanner[1].maxKpps = Some(30)
    /\ angle > 10
    /\ rateResult[1].note = UnknownNote

\* C2: with a non-empty table the result is {0, "Exceeds max angle (M deg)"}
\* if and only if exceedsMaxScannerAngle(scanner, angle) is true, for every
\* defined maxAngle M, 0 included.
C2_ExceedsIffDeviceLimit ==
    (RateReturned /\ exceedsResult # <<>> /\ HasSpecs)
        => ( ( /\ IsDefined(scanner[1].maxAngle)
               /\ rateResult[1] =
                    [kpps |-> 0, note |-> ExceedsNote(scanner[1].maxAngle[1])] )
             <=> exceedsResult[1] )

\* C3: exceedsMaxScannerAngle is true if and only if the scanner is there,
\* maxAngle is defined and the angle is greater than maxAngle.
C3_ExceedsDeviceLimit ==
    exceedsResult # <<>>
        => ( exceedsResult[1]
             <=> ( /\ scanner # Absent
                   /\ IsDefined(scanner[1].maxAngle)
                   /\ angle > scanner[1].maxAngle[1] ) )

\* A maxAngle of 0 is a defined limit that every positive angle exceeds.
C3_Witness ==
    /\ exceedsResult = <<TRUE>>
    /\ scanner[1].maxAngle = Some(0)
    /\ angle = 1

\* C4: when the clamped target angle is the angle of a spec point and the
\* max-angle check did not fire, the result is the kpps and note of a point
\* of that angle, unchanged, also when that kpps is greater than maxKpps.
C4_ExactMatchVerbatim ==
    (RateReturned /\ CheckPassed /\ Clamped \in SpecAngles)
        => \E i \in DOMAIN scanner[1].specs[1] :
              /\ scanner[1].specs[1][i].angle = Clamped
              /\ rateResult[1] = [kpps |-> scanner[1].specs[1][i].kpps,
                                  note |-> scanner[1].specs[1][i].note]

\* An exact match whose rate lies above the scanner's maxKpps.
C4_Witness ==
    /\ RateReturned
    /\ CheckPassed
    /\ Clamped \in SpecAngles
    /\ Truthy(scanner[1].maxKpps)
    /\ rateResult[1].kpps > scanner[1].maxKpps[1]
    /\ rateResult[1].note = SpecNote("ILDA at 4 deg")

\* C5: with maxKpps defined the returned kpps is never greater than maxKpps,
\* whichever branch produced it.  Stated for a maxKpps other than 0, which
\* the code takes for a missing one: the ceiling fails for a positive
\* maxKpps already.
C5_MaxKppsCeiling ==
    (RateReturned /\ scanner # Absent /\ Truthy(scanner[1].maxKpps))
        => rateResult[1].kpps <= scanner[1].maxKpps[1]

RoundedBelow(k, s, a) ==
    IF a = 0 \/ 2 * s >= 3 * a
    THEN (3 * k + 1) \div 2
    ELSE (2 * k * s + a) \div (2 * a)

\* max(1, round(k / (a / l)^2)) for a > l >= 0.
RoundedAbove(k, l, a) ==
    LET r == IF l = 0 THEN 0 ELSE (2 * k * l * l + a * a) \div (2 * a * a)
    IN  IF r < 1 THEN 1 ELSE r

\* The clamped target angle lies strictly below the smallest spec angle.
BelowTable == CheckPassed /\ Clamped < SmallestAngle

\* The clamped target angle lies strictly above the largest spec angle.
AboveTable == CheckPassed /\ Clamped > LargestAngle

\* C7: strictly below the smallest spec angle s the kpps is
\* round(smallestKpps * min(s / a, 1.5)), reduced to maxKpps when maxKpps is
\* defined and smaller; it never exceeds round(1.5 * smallestKpps); the note
\* is "Max KPPS (<maxKpps>K)" when the kpps is maxKpps and
\* "Estimated (< <s> deg)" otherwise.
C7_BelowRangeFormula ==
    (RateReturned /\ BelowTable)
        => LET raw == RoundedBelow(SmallestKpps, SmallestAngle, Clamped)
               maxKpps == scanner[1].maxKpps
               expected == IF IsDefined(maxKpps) /\ maxKpps[1] < raw
                           THEN maxKpps[1] ELSE raw
           IN  /\ rateResult[1].kpps = expected
               /\ rateResult[1].kpps <= (3 * SmallestKpps + 1) \div 2
               /\ rateResult[1].note =
                    IF IsDefined(maxKpps) /\ rateResult[1].kpps = maxKpps[1]
                    THEN MaxKppsNote(maxKpps[1])
                    ELSE EstimatedBelowNote(SmallestAngle)

C9_AboveRangeFormula ==
    (RateReturned /\ AboveTable)
        => /\ rateResult[1] =
                [kpps |-> RoundedAbove(LargestKpps, LargestAngle, Clamped),
                 note |-> EstimatedAboveNote(LargestAngle)]
           /\ (LargestAngle > 0 /\ Clamped = 2 * LargestAngle)
                => rateResult[1].kpps
                     = Max2(1, (LargestKpps + 2) \div 4)
           /\ \A m \in MaxKppsValues :
                rateResult[1] =
                    getRecommendedScanRate(
                        Some([scanner[1] EXCEPT !.maxKpps = m]), angle)

\* Above the table with a result greater than the scanner's maxKpps.
C9_Witness ==
    /\ RateReturned
    /\ AboveTable
    /\ scanner[1].maxKpps = Some(30)
    /\ LargestAngle = 12
    /\ Clamped = 13
    /\ rateResult[1].kpps = 51

Between ==
    /\ CheckPassed
    /\ Clamped \notin SpecAngles
    /\ SmallestAngle < Clamped
    /\ Clamped < LargestAngle

\* The greatest spec angle below the clamped target angle.
LowerAngle ==
    CHOOSE x \in SpecAngles :
        x < Clamped /\ \A y \in SpecAngles : y < Clamped => y <= x

\* The least spec angle above the clamped target angle.
UpperAngle ==
    CHOOSE x \in SpecAngles :
        x > Clamped /\ \A y \in SpecAngles : y > Clamped => y >= x

\* The point below the target: the last one of the table with LowerAngle.
LowerPoint ==
    LET t == scanner[1].specs[1]
        i == CHOOSE j \in DOMAIN t :
                /\ t[j].angle = LowerAngle
                /\ \A m \in DOMAIN t : t[m].angle = LowerAngle => j >= m
    IN  t[i]

\* The point above the target: the first one of the table with UpperAngle.
UpperPoint ==
    LET t == scanner[1].specs[1]
        i == CHOOSE j \in DOMAIN t :
                /\ t[j].angle = UpperAngle
                /\ \A m \in DOMAIN t : t[m].angle = UpperAngle => j <= m
    IN  t[i]

C12_InterpolationCapped ==
    (RateReturned /\ Between)
        => LET v == finalKpps(LowerPoint, UpperPoint, Clamped)
               maxKpps == scanner[1].maxKpps
           IN  /\ v >= 1
               /\ v <= Max2(LowerPoint.kpps, UpperPoint.kpps)
               /\ rateResult[1] =
                    IF IsDefined(maxKpps) /\ v > maxKpps[1]
                    THEN [kpps |-> maxKpps[1],
                          note |-> MaxKppsNote(maxKpps[1])]
                    ELSE [kpps |-> v,
                          note |-> InterpolatedNote(LowerAngle, UpperAngle)]

\* C13: when several points have the angle of the clamped target, the result
\* is the kpps and note of the one that comes first in the table as given.
C13_FirstOfDuplicates ==
    (RateReturned /\ CheckPassed /\ Clamped \in SpecAngles)
        => LET t == scanner[1].specs[1]
               i == CHOOSE j \in DOMAIN t :
                        /\ t[j].angle = Clamped
                        /\ \A m \in DOMAIN t : t[m].angle = Clamped => j <= m
           IN  rateResult[1] = [kpps |-> t[i].kpps, note |-> t[i].note]

\* Two points at 8 deg, the 38K one first: 38K is returned.
C13_Witness ==
    /\ RateReturned
    /\ CheckPassed
    /\ Clamped = 8
    /\ Len(scanner[1].specs[1]) >= 2
    /\ scanner[1].specs[1][1].angle = 8
    /\ scanner[1].specs[1][1].kpps = 38
    /\ scanner[1].specs[1][2].angle = 8
    /\ scanner[1].specs[1][2].kpps = 40
    /\ rateResult[1] = [kpps |-> 38, note |-> SpecNote("Alternative spec")]

\* C14: for a scanner without maxAngle the result for an angle above 90 is
\* the result for 90 and the result for an angle below 0 is the result for 0.
C14_ClampedTarget ==
    (RateReturned /\ scanner # Absent /\ scanner[1].maxAngle = Undefined)
        => /\ angle > MAX_ANGLE
                => rateResult[1] = getRecommendedScanRate(scanner, MAX_ANGLE)
           /\ angle < 0
                => rateResult[1] = getRecommendedScanRate(scanner, 0)

\* A target of 91 deg meets the spec point at 90 deg exactly.
C14_Witness ==
    /\ RateReturned
    /\ HasSpecs
    /\ scanner[1].maxAngle = Undefined
    /\ angle = MAX_ANGLE + 1
    /\ rateResult[1] = [kpps |-> 5, note |-> SpecNote("Full sweep")]

Reorderings(t) ==
    { [i \in DOMAIN t |-> t[p[i]]] :
        p \in { f \in [DOMAIN t -> DOMAIN t] :
                    \A i, j \in DOMAIN t : f[i] = f[j] => i = j } }

\* C16: for a table of pairwise distinct angles the result is the same for
\* every order of the points in the table.
C16_OrderIndependent ==
    (RateReturned /\ HasSpecs
        /\ Cardinality(SpecAngles) = Len(scanner[1].specs[1]))
        => \A t \in Reorderings(scanner[1].specs[1]) :
              getRecommendedScanRate(
                  Some([scanner[1] EXCEPT !.specs = Some(t)]), angle)
                = rateResult[1]

\* A table given in descending order, with the target between its angles.
C16_Witness ==
    /\ RateReturned
    /\ Between
    /\ Len(scanner[1].specs[1]) = 2
    /\ scanner[1].specs[1][1] =
            [angle |-> 8, kpps |-> 40, note |-> SpecNote("ILDA standard")]
    /\ scanner[1].specs[1][2] =
            [angle |-> 4, kpps |-> 60, note |-> SpecNote("ILDA at 4 deg")]
    /\ angle = 6
    /\ rateResult[1] = [kpps |-> 53, note |-> InterpolatedNote(4, 8)]

(* ----------------------- claims on the conversions ---------------------- *)
AngleReturned == angleResult # <<>>

DistanceReturned == distanceResult # <<>>

WidthReturned == widthResult # <<>>

\* clamp(a, 0, 90) and max(0, d) of the claims, on the caller's arguments.
ClampedArg(a) == Fin(Max2(0, Min2(a.v, MAX_ANGLE * SCALE)))

SanitizedArg(d) == Fin(Max2(0, d.v))

\* Both arguments are finite numbers.
FiniteArgs == argA.k = "fin" /\ argB.k = "fin"

\* C17: calculateAngle(distance, width) is a number in [0, 90] for every
\* distance and width, the zero and negative ones included.
\* (Violated: with neither argument positive the quotient is 0 / 0 and the
\* function returns NaN.)
C17_AngleInRange ==
    (AngleReturned /\ FiniteArgs)
        => /\ angleResult[1].k = "fin"
           /\ 0 <= angleResult[1].v
           /\ angleResult[1].v <= MAX_ANGLE * SCALE

\* C18: calculateAngle(distance, width) is exactly MAX_ANGLE for every
\* distance <= 0 and every width > 0.
C18_CeilingAtZeroDistance ==
    (AngleReturned /\ FiniteArgs /\ argA.v <= 0 /\ argB.v > 0)
        => angleResult[1] = Whole(MAX_ANGLE)

\* calculateAngle(-10, 5) has returned.
C18_Witness ==
    /\ AngleReturned
    /\ argA = Whole(-10)
    /\ argB = Whole(5)
    /\ angleResult[1] = Whole(MAX_ANGLE)

\* C19: calculateDistance(angle, width) is Infinity for every angle <= 0,
\* whatever the width, and is 0 for every angle > 0 and width <= 0.
\* (Violated: with angle <= 0 and width <= 0 the quotient is 0 / 0 and the
\* function returns NaN.)
C19_DistanceSentinel ==
    (DistanceReturned /\ FiniteArgs)
        => /\ argA.v <= 0 => distanceResult[1] = PosInf
           /\ (argA.v > 0 /\ argB.v <= 0) => distanceResult[1] = Whole(0)

\* C20: calculateWidth(a, d) = calculateWidth(clamp(a, 0, 90), max(0, d)),
\* and the result is exactly 0 when the clamped angle or the sanitized
\* distance is 0.
C20_WidthClampsInputs ==
    (WidthReturned /\ FiniteArgs)
        => /\ widthResult[1]
                = calculateWidth(ClampedArg(argA), SanitizedArg(argB))
           /\ (ClampedArg(argA).v = 0 \/ SanitizedArg(argB).v = 0)
                => widthResult[1] = Whole(0)

\* calculateWidth(100, 10) has returned what calculateWidth(90, 10) returns,
\* a positive width.
C20_Witness ==
    /\ WidthReturned
    /\ argA = Whole(100)
    /\ argB = Whole(10)
    /\ widthResult[1] = calculateWidth(Whole(MAX_ANGLE), Whole(10))
    /\ widthResult[1].v > 0

\* C21: for an angle in [0, 90] and a distance >= 0, calculateWidth is not
\* negative and calculateWidth(a, 2d) = 2 * calculateWidth(a, d).
C21_WidthLinear ==
    (WidthReturned /\ FiniteArgs
        /\ 0 <= argA.v /\ argA.v <= MAX_ANGLE * SCALE /\ argB.v >= 0)
        => /\ widthResult[1].k = "fin"
           /\ widthResult[1].v >= 0
           /\ calculateWidth(argA, Fin(2 * argB.v))
                = Fin(2 * widthResult[1].v)

\* calculateWidth(30, 5) has returned a positive width, half of
\* calculateWidth(30, 10).
C21_Witness ==
    /\ WidthReturned
    /\ argA = Whole(30)
    /\ argB = Whole(5)
    /\ widthResult[1].v > 0
    /\ calculateWidth(Whole(30), Whole(10)) = Fin(2 * widthResult[1].v)

\* C22: a NaN argument is sanitized like a negative one, so that no
\* conversion returns NaN for it.
\* (Violated: Math.max(0, NaN) and Math.min(NaN, MAX_ANGLE) are NaN, and so
\* is every result computed from them.)
C22_NaNSanitized ==
    /\ (WidthReturned /\ (argA = NotANumber \/ argB = NotANumber))
            => widthResult[1] # NotANumber
    /\ (DistanceReturned /\ (argA = NotANumber \/ argB = NotANumber))
            => distanceResult[1] # NotANumber
    /\ (AngleReturned /\ (argA = NotANumber \/ argB = NotANumber))
            => angleResult[1] # NotANumber

(* --------------------- claims on the longer tables ---------------------- *)
\* The pair of points the interpolation branch works with for the clamped
\* target angle.
BracketLower == lowerSpec(sortedSpecs(scanner[1].specs[1]), Clamped)

BracketUpper == upperSpec(sortedSpecs(scanner[1].specs[1]), Clamped)

\* C27: when the interpolation branch is reached, the pair it works with is
\* the greatest spec angle below the target and the least spec angle above
\* it, duplicate angles or not: lower < target < upper strictly, the pair is
\* the one the loop found, and the result names it unless maxKpps cut it.
C27_StrictBracket ==
    (RateReturned /\ Between)
        => /\ bracketIndex(sortedSpecs(scanner[1].specs[1]), Clamped) # 0
           /\ BracketLower.angle = LowerAngle
           /\ BracketUpper.angle = UpperAngle
           /\ BracketLower.angle < Clamped
           /\ Clamped < BracketUpper.angle
           /\ BracketUpper.angle - BracketLower.angle # 0
           /\ \/ rateResult[1].note = InterpolatedNote(LowerAngle, UpperAngle)
              \/ /\ Truthy(scanner[1].maxKpps)
                 /\ rateResult[1].note = MaxKppsNote(scanner[1].maxKpps[1])

\* A table of three points given out of order and the target between
\* 8 and 12: the default pair (4, 12) is not the bracket.
C27_Witness ==
    /\ RateReturned
    /\ Between
    /\ Len(scanner[1].specs[1]) = 3
    /\ SpecAngles = {4, 8, 12}
    /\ scanner[1].specs[1][1].angle = 12
    /\ angle = 9
    /\ rateResult[1].note = InterpolatedNote(8, 12)

\* The table has pairwise distinct angles and rates that do not increase
\* with the angle; the scanner has neither maxAngle nor maxKpps.
FallingTable ==
    LET t == scanner[1].specs[1]
    IN  /\ HasSpecs
        /\ scanner[1].maxAngle = Undefined
        /\ scanner[1].maxKpps = Undefined
        /\ \A i, j \in DOMAIN t :
              /\ i # j => t[i].angle # t[j].angle
              /\ t[i].angle < t[j].angle => t[i].kpps >= t[j].kpps

\* The rate returned for the target angle is not below the rate of any
\* greater target angle up to MAX_ANGLE.
NonIncreasingFromTarget ==
    \A a2 \in TargetAngles :
        (angle <= a2 /\ a2 <= MAX_ANGLE)
            => getRecommendedScanRate(scanner, a2).kpps <= rateResult[1].kpps

\* C28, as claimed: for a falling table the rate is non-increasing in the
\* target angle over [0, 90].
\* (Violated: beyond a point whose rate is below 1 the floor of 1 kpps
\* lifts the estimate above the rate of the point itself.)
C28_NonIncreasing ==
    (RateReturned /\ FallingTable /\ 0 <= angle /\ angle <= MAX_ANGLE)
        => NonIncreasingFromTarget

\* C28, amended: for a falling table whose rates are whole numbers of at
\* least 1 the rate is non-increasing in the target angle over [0, 90].
C28_NonIncreasingFromOne ==
    (RateReturned /\ FallingTable /\ 0 <= angle /\ angle <= MAX_ANGLE
        /\ \A i \in DOMAIN scanner[1].specs[1] :
              scanner[1].specs[1][i].kpps >= 1)
        => NonIncreasingFromTarget

\* A falling table of three points and a target between the first two:
\* the later targets cover an exact match, the next bracket and the range
\* above the table.
C28_Witness ==
    /\ RateReturned
    /\ FallingTable
    /\ SpecAngles = {4, 8, 12}
    /\ angle = 6
    /\ rateResult[1].kpps = 53
    /\ getRecommendedScanRate(scanner, 8).kpps = 40
    /\ getRecommendedScanRate(scanner, 13).kpps = 2

(* ------------------------ claims on ThemeToggle ------------------------- *)
\* C25: once the component has settled, the document has the 'dark' class
\* iff darkMode is true iff localStorage 'theme' is 'dark'; and a mount that
\* has settled without a click shows the theme stored before it: light for
\* 'light', dark for 'dark' and for nothing stored.
C25_ThemePersists ==
    ThemeSettled
        => /\ darkClass = darkMode
           /\ darkMode = (storedTheme = "dark")
           /\ (clicks = 0 /\ themeAtMount = "light") => ~darkMode
           /\ (clicks = 0 /\ themeAtMount \in {"dark", "none"}) => darkMode

\* A second mount, with the 'light' stored by a click before it, has
\* settled to the light theme.
C25_Witness ==
    /\ ThemeSettled
    /\ mounts = 2
    /\ clicks = 0
    /\ themeAtMount = "light"
    /\ ~darkMode
    /\ ~darkClass
    /\ storedTheme = "light"

\* C26: while a mount with 'light' stored has not settled, the document
\* does not get the 'dark' class and localStorage 'theme' is not 'dark'.
\* (Violated: the second effect of the first render runs with darkMode =
\* true before the render that follows setDarkMode(false).)
C26_NoWrongThemeOnMount ==
    [][(themeAtMount = "light" /\ clicks = 0 /\ ~ThemeSettled)
            => /\ (darkClass' => darkClass)
               /\ (storedTheme' = "dark" => storedTheme = "dark")]_vars

(* -------------------- claims on LaserSightCalculator -------------------- *)
\* No effect run is pending.
CalculatorSettled == ~effectPending

\* null, or a number that is not negative (Infinity counted as one).
NullOrNonNegative(x) ==
    \/ x = Null
    \/ x.k = "inf"
    \/ (x.k = "fin" /\ x.v >= 0)

\* C23: after any sequence of user events and the recomputations they
\* trigger, the angle is null or a number in [0, 90] and the distance and
\* the width are null or numbers that are not negative.
\* (Violated: with an angle of 0 and a width of 0 the distance is computed
\* as 0 / 0 = NaN, and likewise the angle from a distance and width of 0.)
C23_QuantitiesInRange ==
    CalculatorSettled
        => /\ \/ angleState = Null
              \/ /\ angleState.k = "fin"
                 /\ 0 <= angleState.v
                 /\ angleState.v <= MAX_ANGLE * SCALE
           /\ NullOrNonNegative(distanceState)
           /\ NullOrNonNegative(widthState)

\* C24: when no recomputation is pending and both inputs of the mode are
\* not null, the quantity of the mode is the conversion of the two inputs.
C24_ModeQuantityComputed ==
    CalculatorSettled
        => /\ (calculationMode = "width" /\ angleState # Null
                    /\ distanceState # Null)
                => widthState = calculateWidth(angleState, distanceState)
           /\ (calculationMode = "distance" /\ angleState # Null
                    /\ widthState # Null)
                => distanceState = calculateDistance(angleState, widthState)
           /\ (calculationMode = "angle" /\ distanceState # Null
                    /\ widthState # Null)
                => angleState = calculateAngle(distanceState, widthState)

\* Angle mode, settled after the distance and the width were typed: the
\* angle of a distance of 10 and a width of 0 is 0.
C24_Witness ==
    /\ CalculatorSettled
    /\ effectRuns = 2
    /\ calculationMode = "angle"
    /\ distanceState = Whole(10)
    /\ widthState = Whole(0)
    /\ angleState = Whole(0)

\* C29: after a mode switch from a settled state with all three quantities
\* there and width = calculateWidth(angle, distance), the three quantities
\* have the same values again once the recomputation has settled.
\* (Violated: from angle 0 the switch to Distance mode computes the
\* distance as 0 / 0 = NaN, and from distance 0 the switch to Angle mode
\* computes the angle as NaN.)
C29_ModeSwitchKeepsValues ==
    (CalculatorSettled /\ beforeSwitch # <<>>)
        => <<angleState, distanceState, widthState>> = beforeSwitch

\* C30: the recomputation after a user event comes to an end within two
\* runs of the effect: the effect never runs a third time, and after its
\* second run no run is pending, so that a further run would leave the
\* state as it is; also when the value computed is Infinity or NaN.
C30_EffectReachesFixpoint ==
    /\ effectRuns <= 2
    /\ effectPending => effectRuns <= 1

\* The effect has stored NaN, has run once more and left the state as it
\* was.
C30_Witness ==
    /\ CalculatorSettled
    /\ effectRuns = 2
    /\ calculationMode = "distance"
    /\ distanceState = NotANumber

====
